---- MODULE Spec2Model ----
(***************************************************************************)
(* Model of the Inter-AI Protocol SDK (sdk/src/index.ts): the validator,   *)
(* the document factory and the TaskBuilder, over an explicit model of the *)
(* JavaScript values the validator probes at run time.                     *)
(***************************************************************************)
EXTENDS Integers, Sequences, FiniteSets, TLC

VARIABLES
    cand,       \* the candidate value handed to validate / isValid
    edits,      \* number of field assignments applied to the candidate
    op,         \* the operation that ran last
    result,     \* the outcome of the operation that ran last
    options,    \* the options object handed to createTask
    builder,    \* the private fields of one TaskBuilder instance
    senderSet,  \* whether from() or sender() has been called on the builder
    calls,      \* number of setter calls made on the builder
    given,      \* the document handed to toJSON last (undefined: none)
    text,       \* the JSON text handed to parse, as its tokens
    callerList  \* the array the caller passed to successCriteria last:
                \* its elements now, and whether the builder holds that array

vars ==
    <<cand, edits, op, result, options, builder, senderSet, calls, given, text,
      callerList>>

\* ---------------------------------------------------------------- bounds
MaxEdits == 2
MaxCalls == 4

\* ------------------------------------------------------ JavaScript values
Undef == [k |-> "undefined"]
Null == [k |-> "null"]
Num(n) == [k |-> "number", n |-> n]
\* The number Infinity: typeof 'number', truthy, not finite.
Infinity == [k |-> "number", inf |-> TRUE]
IsFinite(v) == v.k = "number" /\ "n" \in DOMAIN v
Str(s) == [k |-> "string", s |-> s]
Bool(b) == [k |-> "boolean", b |-> b]
Arr(e) == [k |-> "array", e |-> e]
Obj(f) == [k |-> "object", f |-> f]

\* The empty TLA+ function stands for an object literal with no own property.
NoFields == [n \in {} |-> Undef]
EmptyObj == Obj(NoFields)
EmptyArr == Arr(<<>>)

\* typeof v
TypeOf(v) ==
    CASE v.k = "undefined" -> "undefined"
      [] v.k = "null" -> "object"
      [] v.k = "number" -> "number"
      [] v.k = "string" -> "string"
      [] v.k = "boolean" -> "boolean"
      [] v.k = "array" -> "object"
      [] v.k = "object" -> "object"

\* ToBoolean(v), as used by !v and by if (v)
Truthy(v) ==
    CASE v.k = "undefined" -> FALSE
      [] v.k = "null" -> FALSE
      [] v.k = "number" -> (IsFinite(v) => v.n # 0)
      [] v.k = "string" -> v.s # ""
      [] v.k = "boolean" -> v.b
      [] v.k = "array" -> TRUE
      [] v.k = "object" -> TRUE

\* Reading a property of null or undefined raises a TypeError.
CanRead(v) == v.k \notin {"undefined", "null"}

\* v[name] for a value whose properties can be read: an own property of an
\* object, undefined for a missing property and for every named property of
\* an array or a primitive.
Get(v, name) ==
    IF v.k = "object" /\ name \in DOMAIN v.f THEN v.f[name] ELSE Undef

\* { ...o, name: v } and o[name] = v on an object
With(o, name, v) ==
    Obj([n \in (DOMAIN o.f) \cup {name} |-> IF n = name THEN v ELSE o.f[n]])

\* An object literal without the property name.
Without(o, name) == Obj([n \in (DOMAIN o.f) \ {name} |-> o.f[n]])

\* ------------------------------------------------------ operation outcomes
Return(v) == [kind |-> "return", value |-> v]
Throw(e) == [kind |-> "throw", error |-> e]
None == [kind |-> "none"]

Err(path, message) == [path |-> path, message |-> message]

\* ------------------------------------------------------------- validate
\* if (t.iap_version !== '0.2')
CheckVersion(t) ==
    IF Get(t, "iap_version") # Str("0.2")
    THEN <<Err("iap_version", "Must be \"0.2\"")>>
    ELSE <<>>

\* if (typeof t.task_id !== 'string' || !t.task_id)
CheckTaskId(t) ==
    IF TypeOf(Get(t, "task_id")) # "string" \/ ~Truthy(Get(t, "task_id"))
    THEN <<Err("task_id", "Required string")>>
    ELSE <<>>

\* CheckSender as a closed schema would write it: a property of sender that
\* IAPSender does not declare is reported.
CheckSenderClosed(t) ==
    LET sender == Get(t, "sender") IN
    IF ~Truthy(sender) \/ TypeOf(sender) # "object"
    THEN <<Err("sender", "Required object")>>
    ELSE IF TypeOf(Get(sender, "agent_id")) # "string"
            \/ ~Truthy(Get(sender, "agent_id"))
            \/ (sender.k = "object"
                /\ ~(DOMAIN sender.f
                        \subseteq {"agent_id", "email", "framework", "callback"}))
         THEN <<Err("sender.agent_id", "Required string")>>
         ELSE <<>>

\* if (!t.sender || typeof t.sender !== 'object') ... else agent_id check
CheckSender(t) ==
    LET sender == Get(t, "sender") IN
    IF ~Truthy(sender) \/ TypeOf(sender) # "object"
    THEN <<Err("sender", "Required object")>>
    ELSE IF TypeOf(Get(sender, "agent_id")) # "string"
            \/ ~Truthy(Get(sender, "agent_id"))
         THEN <<Err("sender.agent_id", "Required string")>>
         ELSE <<>>

\* if (!t.task || typeof t.task !== 'object') ... else intent check
CheckTask(t) ==
    LET task == Get(t, "task") IN
    IF ~Truthy(task) \/ TypeOf(task) # "object"
    THEN <<Err("task", "Required object")>>
    ELSE IF TypeOf(Get(task, "intent")) # "string"
            \/ ~Truthy(Get(task, "intent"))
         THEN <<Err("task.intent", "Required string")>>
         ELSE <<>>

validMethods == {Str("sync"), Str("async"), Str("email")}
validFormats ==
    {Str("markdown"), Str("json"), Str("yaml"), Str("code"), Str("freeform")}
validActions ==
    {Str("return_partial"), Str("retry"), Str("escalate"), Str("abort")}

\* The delivery block.  typeof null is 'object', so a null delivery reaches
\* the else branch, where reading delivery.method raises a TypeError.
CheckDelivery(t) ==
    LET delivery == Get(t, "delivery") IN
    IF delivery = Undef THEN Return(<<>>)
    ELSE IF TypeOf(delivery) # "object"
    THEN Return(<<Err("delivery", "Must be an object")>>)
    ELSE IF ~CanRead(delivery) THEN Throw("TypeError")
    ELSE Return(
        (IF Get(delivery, "method") \notin validMethods
         THEN <<Err("delivery.method", "Must be \"sync\", \"async\", or \"email\"")>>
         ELSE <<>>)
        \o (IF Get(delivery, "method") = Str("async")
               /\ ~Truthy(Get(delivery, "webhook"))
            THEN <<Err("delivery.webhook", "Required for async delivery")>>
            ELSE <<>>)
        \o (IF Get(delivery, "method") = Str("email")
               /\ ~Truthy(Get(delivery, "email"))
            THEN <<Err("delivery.email", "Required for email delivery")>>
            ELSE <<>>))

\* The output block.
CheckOutput(t) ==
    LET output == Get(t, "output") IN
    IF output = Undef THEN Return(<<>>)
    ELSE IF TypeOf(output) # "object"
    THEN Return(<<Err("output", "Must be an object")>>)
    ELSE IF ~CanRead(output) THEN Throw("TypeError")
    ELSE Return(
        IF Get(output, "format") \notin validFormats
        THEN <<Err("output.format",
                   "Must be markdown, json, yaml, code, or freeform")>>
        ELSE <<>>)

\* The on_failure block.
CheckOnFailure(t) ==
    LET onFailure == Get(t, "on_failure") IN
    IF onFailure = Undef THEN Return(<<>>)
    ELSE IF TypeOf(onFailure) # "object"
    THEN Return(<<Err("on_failure", "Must be an object")>>)
    ELSE IF ~CanRead(onFailure) THEN Throw("TypeError")
    ELSE Return(
        IF Get(onFailure, "action") \notin validActions
        THEN <<Err("on_failure.action",
                   "Must be return_partial, retry, escalate, or abort")>>
        ELSE <<>>)

\* validate with the output block run before the delivery block.
validateReordered(task) ==
    IF ~Truthy(task) \/ TypeOf(task) # "object"
    THEN Return(<<Err("", "Task must be an object")>>)
    ELSE LET required == CheckVersion(task) \o CheckTaskId(task)
                         \o CheckSender(task) \o CheckTask(task)
             d == CheckDelivery(task)
             o == CheckOutput(task)
             f == CheckOnFailure(task)
         IN  IF o.kind = "throw" THEN o
             ELSE IF d.kind = "throw" THEN d
             ELSE IF f.kind = "throw" THEN f
             ELSE Return(required \o o.value \o d.value \o f.value)

\* validate(task): the top-level gate, then every block in source order.  The
\* first block that raises ends the call; the errors pushed so far are lost.
validate(task) ==
    IF ~Truthy(task) \/ TypeOf(task) # "object"
    THEN Return(<<Err("", "Task must be an object")>>)
    ELSE LET required == CheckVersion(task) \o CheckTaskId(task)
                         \o CheckSender(task) \o CheckTask(task)
             d == CheckDelivery(task)
             o == CheckOutput(task)
             f == CheckOnFailure(task)
         IN  IF d.kind = "throw" THEN d
             ELSE IF o.kind = "throw" THEN o
             ELSE IF f.kind = "throw" THEN f
             ELSE Return(required \o d.value \o o.value \o f.value)

\* isValid with logic of its own: only the four required fields are looked at.
isValidRequiredOnly(task) ==
    IF ~Truthy(task) \/ TypeOf(task) # "object" THEN Return(Bool(FALSE))
    ELSE Return(Bool(Len(CheckVersion(task) \o CheckTaskId(task)
                         \o CheckSender(task) \o CheckTask(task)) = 0))

\* isValid(task): validate(task).length === 0; a fault of validate propagates.
isValid(task) ==
    LET r == validate(task) IN
    IF r.kind = "throw" THEN r ELSE Return(Bool(Len(r.value) = 0))

\* ----------------------------------------------------------- createTask
\* generateTaskId(): `${Date.now().toString(36)}-${random}`, never empty; the
\* clock and the random source make it a choice among generated ids.
GeneratedIds == {"lx1-a1b2c3", "lx2-d4e5f6"}

\* a ?? b
Nullish(v) == v.k \in {"undefined", "null"}
Coalesce(a, b) == IF Nullish(a) THEN b ELSE a

\* createTask with task_id: options.task_id || generateTaskId().
createTaskOr(opts, id) ==
    Obj([iap_version |-> Str("0.2"),
         task_id |-> IF Truthy(Get(opts, "task_id")) THEN Get(opts, "task_id")
                     ELSE Str(id),
         sender |-> Get(opts, "sender"),
         delivery |-> Get(opts, "delivery"),
         task |-> Get(opts, "task"),
         constraints |-> Get(opts, "constraints"),
         success_criteria |-> Get(opts, "success_criteria"),
         output |-> Get(opts, "output"),
         on_failure |-> Get(opts, "on_failure")])

\* createTask(options), with id the value generateTaskId() would return.  All
\* nine properties are own properties of the result, an omitted option as
\* undefined.
createTask(opts, id) ==
    Obj([iap_version |-> Str("0.2"),
         task_id |-> Coalesce(Get(opts, "task_id"), Str(id)),
         sender |-> Get(opts, "sender"),
         delivery |-> Get(opts, "delivery"),
         task |-> Get(opts, "task"),
         constraints |-> Get(opts, "constraints"),
         success_criteria |-> Get(opts, "success_criteria"),
         output |-> Get(opts, "output"),
         on_failure |-> Get(opts, "on_failure")])

\* ---------------------------------------------------------- TaskBuilder
\* The eight private fields, all undefined after construction.
NewBuilder ==
    [taskId |-> Undef, sender |-> Undef, delivery |-> Undef, task |-> Undef,
     constraints |-> Undef, successCriteria |-> Undef, output |-> Undef,
     onFailure |-> Undef]

\* { ...v }: the own properties of an object, nothing for undefined or null.
Spread(v) == IF v.k = "object" THEN v ELSE EmptyObj

\* v?.name
OptGet(v, name) == IF Nullish(v) THEN Undef ELSE Get(v, name)

taskId(b, id) == [b EXCEPT !.taskId = id]

from(b, agentId, email, framework) ==
    [b EXCEPT !.sender =
        Obj([agent_id |-> agentId, email |-> email, framework |-> framework])]

sender(b, s) == [b EXCEPT !.sender = s]

\* intent() that starts the task afresh instead of spreading the old one.
intentReplacing(b, i) == [b EXCEPT !.task = Obj([intent |-> i])]

intent(b, i) == [b EXCEPT !.task = With(Spread(b.task), "intent", i)]

details(b, d) == [b EXCEPT !.task = With(Spread(b.task), "details", d)]

context(b, c) == [b EXCEPT !.task = With(Spread(b.task), "context", c)]

contextRef(b, r) == [b EXCEPT !.task = With(Spread(b.task), "context_ref", r)]

task(b, t) == [b EXCEPT !.task = t]

syncDelivery(b) == [b EXCEPT !.delivery = Obj([method |-> Str("sync")])]

asyncDelivery(b, webhook, statusEndpoint) ==
    [b EXCEPT !.delivery =
        Obj([method |-> Str("async"), webhook |-> webhook,
             status_endpoint |-> statusEndpoint])]

emailDelivery(b, email) ==
    [b EXCEPT !.delivery = Obj([method |-> Str("email"), email |-> email])]

delivery(b, d) == [b EXCEPT !.delivery = d]

\* timeLimit, tokenBudget, toolsAllowed, toolsDenied, scope and
\* requiresCapabilities: { ...this._constraints, <name>: v }
setConstraint(b, name, v) ==
    [b EXCEPT !.constraints = With(Spread(b.constraints), name, v)]

constraints(b, c) == [b EXCEPT !.constraints = c]

successCriteria(b, criteria) == [b EXCEPT !.successCriteria = criteria]

\* No array has been passed yet.
NoList == [list |-> Undef, same |-> FALSE]

\* this._successCriteria = criteria keeps the caller's array itself, no copy.
passed(criteria) == [list |-> criteria, same |-> TRUE]

\* An addCriterion that pushes onto the array the builder holds.
pushCriterionCaller(held, criterion) ==
    IF held.same
    THEN [held EXCEPT !.list = Arr(Append(held.list.e, criterion))]
    ELSE held

\* What addCriterion does to the caller's array: the spread builds a new
\* array for the builder, so the caller's is no longer held, and not written.
addCriterionCaller(held, criterion) == [held EXCEPT !.same = FALSE]

\* [...(this._successCriteria ?? []), criterion]
addCriterion(b, criterion) ==
    [b EXCEPT !.successCriteria =
        Arr(Append(Coalesce(b.successCriteria, EmptyArr).e, criterion))]

\* this._output = { format, schema }
outputFormat(b, format, schema) ==
    [b EXCEPT !.output = Obj([format |-> format, schema |-> schema])]

deliverTo(b, location) ==
    [b EXCEPT !.output = With(Spread(b.output), "deliver_to", location)]

output(b, o) == [b EXCEPT !.output = o]

\* this._onFailure = { action, ...options }
onFailure(b, action, opts) ==
    [b EXCEPT !.onFailure =
        Obj([n \in {"action"} \cup DOMAIN Spread(opts).f |->
                IF n \in DOMAIN Spread(opts).f THEN Spread(opts).f[n]
                ELSE action])]

SenderRequired == "Sender is required - call from() or sender()"
IntentRequired == "Task intent is required - call intent() or task()"

\* build() with its two preconditions in the other order.
buildIntentFirst(b, id) ==
    IF ~Truthy(OptGet(b.task, "intent")) THEN Throw(IntentRequired)
    ELSE IF ~Truthy(b.sender) THEN Throw(SenderRequired)
    ELSE Return(createTask(
            Obj([task_id |-> b.taskId, sender |-> b.sender,
                 delivery |-> b.delivery, task |-> b.task,
                 constraints |-> b.constraints,
                 success_criteria |-> b.successCriteria,
                 output |-> b.output, on_failure |-> b.onFailure]), id))

\* build(), with id the value generateTaskId() would return.
build(b, id) ==
    IF ~Truthy(b.sender) THEN Throw(SenderRequired)
    ELSE IF ~Truthy(OptGet(b.task, "intent")) THEN Throw(IntentRequired)
    ELSE Return(createTask(
            Obj([task_id |-> b.taskId, sender |-> b.sender,
                 delivery |-> b.delivery, task |-> b.task,
                 constraints |-> b.constraints,
                 success_criteria |-> b.successCriteria,
                 output |-> b.output, on_failure |-> b.onFailure]), id))

\* ------------------------------------------------------ parse and toJSON
\* JSON text as the sequence of its tokens; white space is a token of its own.
Tok(t) == [t |-> t]
StrTok(s) == [t |-> "string", s |-> s]
NumTok(n) == [t |-> "number", n |-> n]
\* a line break followed by n spaces
Indent(n) == [t |-> "ws", n |-> n]
Space == [t |-> "space"]

\* Property names in the order the interfaces declare them; one undeclared
\* name at the end.  JSON.stringify emits own properties in insertion order,
\* which for documents of createTask is this order.
KeyOrder ==
    <<"iap_version", "task_id", "sender", "delivery", "task", "constraints",
      "success_criteria", "output", "on_failure",
      "agent_id", "email", "framework", "callback",
      "method", "webhook", "status_endpoint",
      "intent", "details", "context", "context_ref",
      "time_limit", "token_budget", "tools_allowed", "tools_denied", "scope",
      "requires_capabilities",
      "format", "schema", "deliver_to",
      "action", "max_retries", "escalate_to", "x_extra">>

\* The names of the properties JSON.stringify emits for o: own properties
\* whose value is not undefined.
Emitted(o) ==
    SelectSeq(KeyOrder, LAMBDA n : n \in DOMAIN o.f /\ o.f[n] # Undef)

RECURSIVE Stringify(_, _, _)
RECURSIVE StringifyElements(_, _, _, _)
RECURSIVE StringifyMembers(_, _, _, _, _)

\* The elements e[i..] of an array, separated by commas; an undefined
\* element is written null.
StringifyElements(e, i, pretty, depth) ==
    IF i > Len(e) THEN <<>>
    ELSE (IF pretty THEN <<Indent(2 * depth)>> ELSE <<>>)
         \o (IF e[i] = Undef THEN <<Tok("null")>>
             ELSE Stringify(e[i], pretty, depth))
         \o (IF i < Len(e) THEN <<Tok(",")>> ELSE <<>>)
         \o StringifyElements(e, i + 1, pretty, depth)

\* The members keys[i..] of object o, separated by commas.
StringifyMembers(o, keys, i, pretty, depth) ==
    IF i > Len(keys) THEN <<>>
    ELSE (IF pretty THEN <<Indent(2 * depth)>> ELSE <<>>)
         \o <<StrTok(keys[i]), Tok(":")>>
         \o (IF pretty THEN <<Space>> ELSE <<>>)
         \o Stringify(o.f[keys[i]], pretty, depth)
         \o (IF i < Len(keys) THEN <<Tok(",")>> ELSE <<>>)
         \o StringifyMembers(o, keys, i + 1, pretty, depth)

\* JSON.stringify of a value other than undefined, nested depth levels deep.
Stringify(v, pretty, depth) ==
    CASE v.k = "null" -> <<Tok("null")>>
      [] v.k = "boolean" -> <<Tok(IF v.b THEN "true" ELSE "false")>>
      [] v.k = "number" ->
            IF IsFinite(v) THEN <<NumTok(v.n)>> ELSE <<Tok("null")>>
      [] v.k = "string" -> <<StrTok(v.s)>>
      [] v.k = "array" ->
            IF Len(v.e) = 0 THEN <<Tok("["), Tok("]")>>
            ELSE <<Tok("[")>> \o StringifyElements(v.e, 1, pretty, depth + 1)
                 \o (IF pretty THEN <<Indent(2 * depth)>> ELSE <<>>)
                 \o <<Tok("]")>>
      [] v.k = "object" ->
            IF Len(Emitted(v)) = 0 THEN <<Tok("{"), Tok("}")>>
            ELSE <<Tok("{")>>
                 \o StringifyMembers(v, Emitted(v), 1, pretty, depth + 1)
                 \o (IF pretty THEN <<Indent(2 * depth)>> ELSE <<>>)
                 \o <<Tok("}")>>

\* toJSON(task, pretty): JSON.stringify(task, null, pretty ? 2 : undefined)
toJSON(doc, pretty) == Stringify(doc, pretty, 0)

IsWhite(tok) == tok.t \in {"ws", "space"}

RECURSIVE SkipWhite(_, _)
\* The first position from i on that holds no white space.
SkipWhite(toks, i) ==
    IF i <= Len(toks) /\ IsWhite(toks[i]) THEN SkipWhite(toks, i + 1) ELSE i

SyntaxError == [ok |-> FALSE]
Parsed(v, next) == [ok |-> TRUE, v |-> v, next |-> next]

RECURSIVE ParseValue(_, _)
RECURSIVE ParseElements(_, _, _)
RECURSIVE ParseMembers(_, _, _)

\* After '[' or ',': one element, then ',' or ']'.
ParseElements(toks, i, acc) ==
    LET el == ParseValue(toks, i) IN
    IF ~el.ok THEN SyntaxError
    ELSE LET j == SkipWhite(toks, el.next) IN
         IF j > Len(toks) THEN SyntaxError
         ELSE IF toks[j] = Tok(",")
              THEN ParseElements(toks, j + 1, Append(acc, el.v))
         ELSE IF toks[j] = Tok("]") THEN Parsed(Arr(Append(acc, el.v)), j + 1)
         ELSE SyntaxError

\* After '{' or ',': "name" ':' value, then ',' or '}'.
ParseMembers(toks, i, acc) ==
    LET k == SkipWhite(toks, i) IN
    IF k > Len(toks) \/ toks[k].t # "string" THEN SyntaxError
    ELSE LET c == SkipWhite(toks, k + 1) IN
         IF c > Len(toks) \/ toks[c] # Tok(":") THEN SyntaxError
         ELSE LET el == ParseValue(toks, c + 1) IN
              IF ~el.ok THEN SyntaxError
              ELSE LET j == SkipWhite(toks, el.next)
                       obj == With(acc, toks[k].s, el.v)
                   IN  IF j > Len(toks) THEN SyntaxError
                       ELSE IF toks[j] = Tok(",")
                            THEN ParseMembers(toks, j + 1, obj)
                       ELSE IF toks[j] = Tok("}") THEN Parsed(obj, j + 1)
                       ELSE SyntaxError

\* One JSON value starting at or after position i.
ParseValue(toks, i) ==
    LET j == SkipWhite(toks, i) IN
    IF j > Len(toks) THEN SyntaxError
    ELSE CASE toks[j].t = "null" -> Parsed(Null, j + 1)
           [] toks[j].t = "true" -> Parsed(Bool(TRUE), j + 1)
           [] toks[j].t = "false" -> Parsed(Bool(FALSE), j + 1)
           [] toks[j].t = "number" -> Parsed(Num(toks[j].n), j + 1)
           [] toks[j].t = "string" -> Parsed(Str(toks[j].s), j + 1)
           [] toks[j].t = "[" ->
                 LET n == SkipWhite(toks, j + 1) IN
                 IF n <= Len(toks) /\ toks[n] = Tok("]")
                 THEN Parsed(EmptyArr, n + 1)
                 ELSE ParseElements(toks, j + 1, <<>>)
           [] toks[j].t = "{" ->
                 LET n == SkipWhite(toks, j + 1) IN
                 IF n <= Len(toks) /\ toks[n] = Tok("}")
                 THEN Parsed(EmptyObj, n + 1)
                 ELSE ParseMembers(toks, j + 1, EmptyObj)
           [] OTHER -> SyntaxError

\* JSON.parse(input): one value and nothing but white space after it.
JSONparse(toks) ==
    LET p == ParseValue(toks, 1) IN
    IF p.ok /\ SkipWhite(toks, p.next) > Len(toks) THEN p ELSE SyntaxError

JsonOnly ==
    "Only JSON format is supported in this version. For YAML, use a YAML parser first."

RECURSIVE Join(_, _)
\* errors.map(e => `${e.path}: ${e.message}`).join(', ') from entry i on
Join(errs, i) ==
    IF i > Len(errs) THEN ""
    ELSE errs[i].path \o ": " \o errs[i].message
         \o (IF i < Len(errs) THEN ", " ELSE "") \o Join(errs, i + 1)

\* parse(input)
parse(input) ==
    LET p == JSONparse(input) IN
    IF ~p.ok THEN Throw(JsonOnly)
    ELSE LET errors == validate(p.v) IN
         IF errors.kind = "throw" THEN errors
         ELSE IF Len(errors.value) > 0
              THEN Throw("Invalid IAP task: " \o Join(errors.value, 1))
         ELSE Return(p.v)

\* ------------------------------------------------- candidates of validate
\* The minimal conformant document of the tests.
MinimalDoc ==
    Obj([iap_version |-> Str("0.2"), task_id |-> Str("test"),
         sender |-> Obj([agent_id |-> Str("a")]),
         task |-> Obj([intent |-> Str("x")])])

\* The document of the test "requires webhook for async delivery".
AsyncDoc == With(MinimalDoc, "delivery", Obj([method |-> Str("async")]))

\* validate takes `unknown`: every kind of value can be the candidate.
Candidates ==
    {EmptyObj, MinimalDoc, AsyncDoc, Undef, Null, Num(0), Num(1), Str(""),
     Str("x"), Bool(FALSE), EmptyArr}

\* Values of any kind, as an untyped caller can put in any property.
AnyValues ==
    {Undef, Null, Num(0), Str("x"), Bool(TRUE), EmptyArr, EmptyObj}

TopFields ==
    {"iap_version", "task_id", "sender", "task", "delivery", "constraints",
     "success_criteria", "output", "on_failure", "x_extra"}

TopValues(name) ==
    CASE name = "iap_version" -> {Undef, Num(0), Str("0.1"), Str("0.2")}
      [] name = "task_id" -> {Undef, Null, Num(0), Str(""), Str("x")}
      [] name = "constraints" -> {Null, EmptyObj}
      [] name = "success_criteria" -> {Str("x"), EmptyArr}
      [] name = "x_extra" -> {Str("x")}
      [] OTHER -> AnyValues

SubFields(name) ==
    CASE name = "sender" -> {"agent_id", "x_extra"}
      [] name = "task" -> {"intent", "x_extra"}
      [] name = "delivery" -> {"method", "webhook", "email", "x_extra"}
      [] name = "output" -> {"format", "x_extra"}
      [] name = "on_failure" -> {"action", "x_extra"}
      [] OTHER -> {"x_extra"}

SubValues(name) ==
    CASE name = "method" ->
            {Undef, Num(0), Str("")} \cup validMethods \cup {Str("SYNC")}
      [] name = "format" ->
            {Undef, Num(0), Str("")} \cup validFormats \cup {Str("JSON")}
      [] name = "action" ->
            {Undef, Num(0), Str("")} \cup validActions \cup {Str("Retry")}
      [] name \in {"webhook", "email"} -> {Undef, Str(""), Str("x")}
      [] name = "x_extra" -> {Str("x")}
      [] OTHER -> {Undef, Num(0), Str(""), Str("x")}

\* t[name] = v
AssignField(name, v) ==
    /\ cand.k = "object"
    /\ edits < MaxEdits
    /\ cand' = With(cand, name, v)
    /\ edits' = edits + 1
    /\ op' = "edit"
    /\ result' = None
    /\ UNCHANGED <<options, builder, senderSet, calls, given, text, callerList>>

\* t[top][name] = v, for a property that holds an object
AssignSubField(top, name, v) ==
    /\ cand.k = "object"
    /\ top \in DOMAIN cand.f
    /\ cand.f[top].k = "object"
    /\ edits < MaxEdits
    /\ cand' = With(cand, top, With(cand.f[top], name, v))
    /\ edits' = edits + 1
    /\ op' = "edit"
    /\ result' = None
    /\ UNCHANGED <<options, builder, senderSet, calls, given, text, callerList>>

\* A candidate literal written without the property name.
RemoveField(name) ==
    /\ cand.k = "object"
    /\ name \in DOMAIN cand.f
    /\ edits < MaxEdits
    /\ cand' = Without(cand, name)
    /\ edits' = edits + 1
    /\ op' = "edit"
    /\ result' = None
    /\ UNCHANGED <<options, builder, senderSet, calls, given, text, callerList>>

Validate ==
    /\ op' = "validate"
    /\ result' = validate(cand)
    /\ UNCHANGED <<cand, edits, options, builder, senderSet, calls, given, text, callerList>>

IsValid ==
    /\ op' = "isValid"
    /\ result' = isValid(cand)
    /\ UNCHANGED <<cand, edits, options, builder, senderSet, calls, given, text, callerList>>

Init ==
    /\ cand \in Candidates
    /\ edits = 0
    /\ op = "none"
    /\ result = None
    /\ options = EmptyObj
    /\ builder = NewBuilder
    /\ senderSet = FALSE
    /\ calls = 0
    /\ given = Undef
    /\ text = <<>>
    /\ callerList = NoList

Next ==
    \/ \E name \in TopFields : \E v \in TopValues(name) : AssignField(name, v)
    \/ \E top \in TopFields : \E name \in SubFields(top) :
          \E v \in SubValues(name) : AssignSubField(top, name, v)
    \/ \E name \in TopFields : RemoveField(name)
    \/ Validate
    \/ IsValid

Spec == Init /\ [][Next]_vars

\* ------------------------------------------- the factory and the builder
\* An object literal in which the property is left out when v is Omitted.
Omitted == [k |-> "omitted"]
Opt(o, name, v) == IF v = Omitted THEN o ELSE With(o, name, v)

\* Typed arguments of createTask.
OptionSets ==
    {Opt(Opt(Opt(Opt(Opt(Opt(Obj([sender |-> s, task |-> t]), "task_id", id),
                         "delivery", d), "output", o), "success_criteria", c),
             "constraints", k), "on_failure", f) :
        s \in {Obj([agent_id |-> Str("test")]), Obj([agent_id |-> Str("")])},
        t \in {Obj([intent |-> Str("Do something")]), Obj([intent |-> Str("")])},
        id \in {Omitted, Undef, Str(""), Str("my-id")},
        d \in {Omitted, Obj([method |-> Str("sync")]),
               Obj([method |-> Str("async")])},
        o \in {Omitted, Obj([format |-> Str("json")])},
        c \in {Omitted, Arr(<<Str("c1")>>)},
        k \in {Omitted, Obj([time_limit |-> Str("30m")])},
        f \in {Omitted, Obj([action |-> Str("return_partial")])}}

CreateTask ==
    \E opts \in OptionSets : \E id \in GeneratedIds :
        /\ options' = opts
        /\ op' = "createTask"
        /\ result' = Return(createTask(opts, id))
        /\ UNCHANGED <<cand, edits, builder, senderSet, calls, given, text, callerList>>

\* A chained setter: the builder's fields change, nothing is returned but this.
\* A setter: assign, return this.
Assign(b, isSender) ==
    /\ calls < MaxCalls
    /\ builder' = b
    /\ senderSet' = (senderSet \/ isSender)
    /\ calls' = calls + 1
    /\ op' = "set"
    /\ result' = None
    /\ UNCHANGED <<cand, edits, options, given, text>>

\* A setter that takes no array from the caller and writes none.
Set(b, isSender) ==
    /\ Assign(b, isSender)
    /\ UNCHANGED callerList

TaskId == \E id \in {Str(""), Str("my-id")} : Set(taskId(builder, id), FALSE)
From ==
    \E email \in {Undef, Str("me@agentmail.to")} :
        Set(from(builder, Str("my-agent"), email, Undef), TRUE)
Sender == Set(sender(builder, Obj([agent_id |-> Str("")])), TRUE)
Intent == \E i \in {Str(""), Str("x")} : Set(intent(builder, i), FALSE)
Details == Set(details(builder, Str("d")), FALSE)
Context == Set(context(builder, Str("c")), FALSE)
ContextRef == Set(contextRef(builder, Str("r")), FALSE)
Task ==
    \E t \in {Obj([intent |-> Str("y"), details |-> Str("dd")]),
              Obj([intent |-> Str("")])} : Set(task(builder, t), FALSE)
SyncDelivery == Set(syncDelivery(builder), FALSE)
AsyncDelivery ==
    \E w \in {Str(""), Str("https://w")} :
        Set(asyncDelivery(builder, w, Undef), FALSE)
EmailDelivery == Set(emailDelivery(builder, Str("r@agentmail.to")), FALSE)
Delivery == Set(delivery(builder, Obj([method |-> Str("async")])), FALSE)
TimeLimit == Set(setConstraint(builder, "time_limit", Str("30m")), FALSE)
TokenBudget ==
    \E tokens \in {Num(5000), Infinity} :
        Set(setConstraint(builder, "token_budget", tokens), FALSE)
ToolsAllowed ==
    Set(setConstraint(builder, "tools_allowed", Arr(<<Str("web_search")>>)), FALSE)
ToolsDenied ==
    Set(setConstraint(builder, "tools_denied", Arr(<<Str("send_email")>>)), FALSE)
Scope == Set(setConstraint(builder, "scope", Str("s")), FALSE)
RequiresCapabilities ==
    Set(setConstraint(builder, "requires_capabilities",
                      Arr(<<Str("code_exec")>>)), FALSE)
Constraints == Set(constraints(builder, Obj([scope |-> Str("t")])), FALSE)
SuccessCriteria ==
    \E l \in {EmptyArr, Arr(<<Str("c1")>>)} :
        /\ Assign(successCriteria(builder, l), FALSE)
        /\ callerList' = passed(l)
AddCriterion ==
    /\ Assign(addCriterion(builder, Str("c2")), FALSE)
    /\ callerList' = addCriterionCaller(callerList, Str("c2"))
OutputFormat ==
    \E f \in {Str("json"), Str("markdown")} :
        Set(outputFormat(builder, f, Undef), FALSE)
DeliverTo == Set(deliverTo(builder, Str("file:///out.md")), FALSE)
Output == Set(output(builder, Obj([format |-> Str("yaml")])), FALSE)
OnFailure ==
    \/ Set(onFailure(builder, Str("abort"), Undef), FALSE)
    \/ Set(onFailure(builder, Str("retry"), Obj([max_retries |-> Num(2)])), FALSE)

Build ==
    \E id \in GeneratedIds :
        /\ op' = "build"
        /\ result' = build(builder, id)
        /\ UNCHANGED <<cand, edits, options, builder, senderSet, calls, given, text, callerList>>

InitBuilder ==
    /\ cand = EmptyObj
    /\ edits = 0
    /\ op = "none"
    /\ result = None
    /\ options = EmptyObj
    /\ builder = NewBuilder
    /\ senderSet = FALSE
    /\ calls = 0
    /\ given = Undef
    /\ text = <<>>
    /\ callerList = NoList

NextBuilder ==
    \/ TaskId \/ From \/ Sender
    \/ Intent \/ Details \/ Context \/ ContextRef \/ Task
    \/ SyncDelivery \/ AsyncDelivery \/ EmailDelivery \/ Delivery
    \/ TimeLimit \/ TokenBudget \/ ToolsAllowed \/ ToolsDenied \/ Scope
    \/ RequiresCapabilities \/ Constraints
    \/ SuccessCriteria \/ AddCriterion
    \/ OutputFormat \/ DeliverTo \/ Output
    \/ OnFailure
    \/ Build

SpecBuilder == InitBuilder /\ [][NextBuilder]_vars

\* The factory on its own: createTask called on typed options.
NextFactory == CreateTask

SpecFactory == InitBuilder /\ [][NextFactory]_vars


\* ------------------------------------------------------------- the codec
\* toJSON(d, pretty): d and the text are kept for the parse that follows.
Serialize(d) ==
    \E pretty \in BOOLEAN :
        /\ given' = d
        /\ text' = toJSON(d, pretty)
        /\ op' = "toJSON"
        /\ result' = None
        /\ UNCHANGED <<cand, edits, options, builder, senderSet, calls, callerList>>

\* toJSON on the current candidate.
ToJSON ==
    /\ op \in {"none", "edit"}
    /\ cand # Undef
    /\ Serialize(cand)

\* toJSON on the document createTask or build has just returned.
ToJSONDocument ==
    /\ op \in {"createTask", "build"}
    /\ result.kind = "return"
    /\ Serialize(result.value)

\* A text that is not the serialization of anything: the last token cut off,
\* or a stray closing brace added.
Mangle ==
    /\ op = "toJSON"
    /\ \/ text' = SubSeq(text, 1, Len(text) - 1)
       \/ text' = Append(text, Tok("}"))
    /\ given' = Undef
    /\ op' = "mangle"
    /\ result' = None
    /\ UNCHANGED <<cand, edits, options, builder, senderSet, calls, callerList>>

\* A YAML document: no JSON at all.
YamlText == <<Tok("other"), Tok(":"), Space, StrTok("0.2")>>

Yaml ==
    /\ op = "none"
    /\ text' = YamlText
    /\ given' = Undef
    /\ op' = "mangle"
    /\ result' = None
    /\ UNCHANGED <<cand, edits, options, builder, senderSet, calls, callerList>>

Parse ==
    /\ op \in {"none", "toJSON", "mangle"}
    /\ op' = "parse"
    /\ result' = parse(text)
    /\ UNCHANGED <<cand, edits, options, builder, senderSet, calls, given, text, callerList>>

MaxCodecEdits == 1

\* Candidates are written first, then serialized, then parsed.
NextCodec ==
    \/ /\ op \in {"none", "edit"}
       /\ edits < MaxCodecEdits
       /\ \/ \E name \in TopFields : \E v \in TopValues(name) :
                AssignField(name, v)
          \/ \E top \in TopFields : \E name \in SubFields(top) :
                \E v \in SubValues(name) : AssignSubField(top, name, v)
          \/ \E name \in TopFields : RemoveField(name)
    \/ ToJSON
    \/ Mangle
    \/ Yaml
    \/ Parse

SpecCodec == Init /\ [][NextCodec]_vars

\* A builder driven through the typed convenience setters only, their string
\* arguments non-empty and their enum arguments valid.
TypedTaskId == Set(taskId(builder, Str("my-id")), FALSE)
TypedIntent == Set(intent(builder, Str("x")), FALSE)
TypedAsyncDelivery == Set(asyncDelivery(builder, Str("https://w"), Undef), FALSE)
TypedOnFailure ==
    \E action \in validActions : Set(onFailure(builder, action, Undef), FALSE)

NextTyped ==
    \/ TypedTaskId \/ From
    \/ TypedIntent \/ Details \/ Context \/ ContextRef
    \/ SyncDelivery \/ TypedAsyncDelivery \/ EmailDelivery
    \/ TimeLimit \/ TokenBudget \/ ToolsAllowed \/ ToolsDenied \/ Scope
    \/ RequiresCapabilities
    \/ SuccessCriteria \/ AddCriterion
    \/ OutputFormat \/ DeliverTo
    \/ TypedOnFailure
    \/ Build

SpecTyped == InitBuilder /\ [][NextTyped]_vars

\* Documents are made by createTask or by a builder, then serialized, then
\* parsed.
NextRoundTrip ==
    \/ /\ op \in {"none", "set", "build"}
       /\ NextBuilder
    \/ /\ op = "none"
       /\ CreateTask
    \/ ToJSONDocument
    \/ /\ op = "toJSON"
       /\ Parse

SpecRoundTrip == InitBuilder /\ [][NextRoundTrip]_vars

\* =================================================================== claims
IsObject(v) == v.k = "object"
NonEmptyString(v) == v.k = "string" /\ v.s # ""
Returned(r) == r.kind = "return"
Threw(r) == r.kind = "throw"
Paths(errs) == [i \in 1..Len(errs) |-> errs[i].path]
HasErr(r, path) == Returned(r) /\ \E i \in 1..Len(r.value) : r.value[i].path = path
\* errs without its entries at path
Drop(errs, path) == SelectSeq(errs, LAMBDA e : e.path # path)
Validated == op = "validate"

\* C1: validate never throws: for every candidate value the call returns a
\* list of errors instead of raising a fault.
C1_ValidateNeverThrows == Validated => Returned(result)

\* C2: for every non-object candidate (null, a number, a string or an array)
\* validate returns exactly one error, whose path is the empty string.
C2_NonObjectOneError ==
    (Validated /\ ~IsObject(cand)) =>
        /\ Returned(result)
        /\ Len(result.value) = 1
        /\ result.value[1].path = ""

\* C3: for every object candidate each required-field check runs on its own:
\* an error at iap_version iff it is not "0.2", at task_id iff it is not a
\* non-empty string, at sender iff sender is not an object, else at
\* sender.agent_id iff agent_id is not a non-empty string, and the same for
\* task and task.intent.
C3_RequiredChecks ==
    (Validated /\ IsObject(cand)) =>
        /\ HasErr(result, "iap_version") <=> Get(cand, "iap_version") # Str("0.2")
        /\ HasErr(result, "task_id") <=> ~NonEmptyString(Get(cand, "task_id"))
        /\ HasErr(result, "sender") <=> ~IsObject(Get(cand, "sender"))
        /\ HasErr(result, "sender.agent_id") <=>
              /\ IsObject(Get(cand, "sender"))
              /\ ~NonEmptyString(Get(Get(cand, "sender"), "agent_id"))
        /\ HasErr(result, "task") <=> ~IsObject(Get(cand, "task"))
        /\ HasErr(result, "task.intent") <=>
              /\ IsObject(Get(cand, "task"))
              /\ ~NonEmptyString(Get(Get(cand, "task"), "intent"))

\* C4: when delivery is an object, validate reports an error at
\* delivery.webhook iff method is "async" and webhook is not truthy, and at
\* delivery.email iff method is "email" and email is not truthy; supplying
\* the missing field removes exactly that error and leaves the others.
C4_DeliveryCrossField ==
    (Validated /\ IsObject(cand) /\ IsObject(Get(cand, "delivery"))) =>
        LET d == Get(cand, "delivery")
            needWebhook == Get(d, "method") = Str("async") /\ ~Truthy(Get(d, "webhook"))
            needEmail == Get(d, "method") = Str("email") /\ ~Truthy(Get(d, "email"))
            supplied(name) == With(cand, "delivery", With(d, name, Str("x")))
        IN  /\ HasErr(result, "delivery.webhook") <=> needWebhook
            /\ HasErr(result, "delivery.email") <=> needEmail
            /\ needWebhook =>
                  /\ Returned(validate(supplied("webhook")))
                  /\ validate(supplied("webhook")).value
                        = Drop(result.value, "delivery.webhook")
            /\ needEmail =>
                  /\ Returned(validate(supplied("email")))
                  /\ validate(supplied("email")).value
                        = Drop(result.value, "delivery.email")

\* C5: enum fields are matched exactly: when delivery, output or on_failure is
\* an object, validate reports an error at delivery.method, output.format or
\* on_failure.action iff the field is not one of the literals; no value of
\* constraints or success_criteria yields an error.
C5_EnumsExact ==
    (Validated /\ IsObject(cand)) =>
        /\ IsObject(Get(cand, "delivery")) =>
              (HasErr(result, "delivery.method") <=>
                  Get(Get(cand, "delivery"), "method") \notin validMethods)
        /\ IsObject(Get(cand, "output")) =>
              (HasErr(result, "output.format") <=>
                  Get(Get(cand, "output"), "format") \notin validFormats)
        /\ IsObject(Get(cand, "on_failure")) =>
              (HasErr(result, "on_failure.action") <=>
                  Get(Get(cand, "on_failure"), "action") \notin validActions)
        /\ validate(Without(Without(cand, "constraints"), "success_criteria"))
              = result

\* The order in which validate pushes its field-level errors.
FixedOrder ==
    <<"iap_version", "task_id", "sender", "sender.agent_id", "task",
      "task.intent", "delivery", "delivery.method", "delivery.webhook",
      "delivery.email", "output", "output.format", "on_failure",
      "on_failure.action">>

Index(path, order) == CHOOSE i \in 1..Len(order) : order[i] = path

\* paths is a subsequence of order in which no path occurs twice
Subsequence(paths, order) ==
    /\ \A i \in 1..Len(paths) : \E j \in 1..Len(order) : order[j] = paths[i]
    /\ \A i, j \in 1..Len(paths) :
          i < j => Index(paths[i], order) < Index(paths[j], order)

\* C6 as stated: the paths of every returned list are a subsequence of the
\* fourteen field paths iap_version .. on_failure.action, none twice.
C6_FieldOrderOnly ==
    (Validated /\ Returned(result)) =>
        Subsequence(Paths(result.value), FixedOrder)

\* C6, amended: the paths of every returned list are a subsequence of the
\* document-level path "" followed by the fourteen field paths, none twice,
\* and "" occurs only as the single error of a candidate that fails the
\* top-level gate.
C6_FixedOrder ==
    (Validated /\ Returned(result)) =>
        /\ Subsequence(Paths(result.value), <<"">> \o FixedOrder)
        /\ HasErr(result, "") => Len(result.value) = 1

\* A call that returned errors of the required, delivery and output blocks.
C6_Witness ==
    /\ Validated
    /\ HasErr(result, "iap_version")
    /\ HasErr(result, "delivery")
    /\ HasErr(result, "output")

\* C7: isValid(x) is true iff validate(x) returns an empty list, false iff it
\* returns a non-empty one, and faults only where validate faults.
C7_IsValidAgrees ==
    op = "isValid" =>
        /\ result = Return(Bool(TRUE)) <=> validate(cand) = Return(<<>>)
        /\ result = Return(Bool(FALSE)) <=>
              (Returned(validate(cand)) /\ Len(validate(cand).value) > 0)
        /\ Threw(result) <=> Threw(validate(cand))

\* isValid answered true for a document with an optional sub-object.
C7_Witness ==
    /\ op = "isValid"
    /\ result = Return(Bool(TRUE))
    /\ IsObject(Get(cand, "delivery"))

\* Properties validate never reads, and values to give them.
UnreadValues == {Null, EmptyObj}
UnreadTop == {"constraints", "success_criteria", "x_extra"}
UnreadSub(name) ==
    CASE name = "sender" -> {"email", "framework", "callback", "x_extra"}
      [] name = "task" -> {"details", "context", "context_ref", "x_extra"}
      [] name = "delivery" -> {"status_endpoint", "x_extra"}
      [] name = "output" -> {"schema", "deliver_to", "x_extra"}
      [] name = "on_failure" -> {"max_retries", "escalate_to", "x_extra"}
      [] OTHER -> {}

\* C8: two object candidates that agree on every validated field and differ
\* only in other properties, at the top level or inside a sub-object, get the
\* same outcome from validate.
C8_UnknownFieldsIgnored ==
    (Validated /\ IsObject(cand)) =>
        /\ \A u \in UnreadTop :
              /\ validate(Without(cand, u)) = result
              /\ \A v \in UnreadValues : validate(With(cand, u, v)) = result
        /\ \A top \in DOMAIN cand.f : \A u \in UnreadSub(top) :
              IsObject(cand.f[top]) =>
                  /\ validate(With(cand, top, Without(cand.f[top], u))) = result
                  /\ \A v \in UnreadValues :
                        validate(With(cand, top, With(cand.f[top], u, v)))
                            = result

\* validate ran on a candidate with an unknown property inside sender and
\* returned the same list as for the candidate without it.
C8_Witness ==
    /\ Validated
    /\ IsObject(cand)
    /\ IsObject(Get(cand, "sender"))
    /\ "x_extra" \in DOMAIN cand.f.sender.f
    /\ Returned(result)
    /\ result = validate(MinimalDoc)

\* The options createTask copies as they are.
CopiedOptions ==
    {"sender", "delivery", "task", "constraints", "success_criteria", "output",
     "on_failure"}
OptionalOptions == CopiedOptions \ {"sender", "task"}

\* What C9 says of every call, apart from conformance: iap_version is "0.2",
\* a supplied task_id is used and a generated non-empty id only when none is
\* supplied, every other option is copied, and nothing is validated (the call
\* returns whatever it was given).
C9_Copies ==
    LET doc == result.value IN
    /\ Returned(result)
    /\ Get(doc, "iap_version") = Str("0.2")
    /\ Get(options, "task_id") # Undef =>
          Get(doc, "task_id") = Get(options, "task_id")
    /\ Get(options, "task_id") = Undef =>
          /\ NonEmptyString(Get(doc, "task_id"))
          /\ Get(doc, "task_id").s \in GeneratedIds
    /\ \A name \in CopiedOptions : Get(doc, name) = Get(options, name)

C9_RequiredGiven ==
    /\ NonEmptyString(Get(Get(options, "sender"), "agent_id"))
    /\ NonEmptyString(Get(Get(options, "task"), "intent"))
    /\ \A name \in OptionalOptions : Get(options, name) = Undef

\* C9 as stated: createTask sets iap_version, uses or generates task_id,
\* copies the rest without validating; and with a non-empty agent_id and
\* intent, no optional input and task_id omitted or supplied, the returned
\* document is conformant.
C9_ConformantForAnyTaskId ==
    op = "createTask" =>
        /\ C9_Copies
        /\ C9_RequiredGiven => isValid(result.value) = Return(Bool(TRUE))

\* C9, amended: the same, with conformance claimed only when task_id is
\* omitted or supplied as a non-empty string.
C9_CreateTask ==
    op = "createTask" =>
        /\ C9_Copies
        /\ (/\ C9_RequiredGiven
            /\ \/ Get(options, "task_id") = Undef
               \/ NonEmptyString(Get(options, "task_id")))
              => isValid(result.value) = Return(Bool(TRUE))

\* createTask was given a task_id of its own and returned a conformant
\* document carrying it.
C9_Witness ==
    /\ op = "createTask"
    /\ Get(options, "task_id") = Str("my-id")
    /\ Get(result.value, "task_id") = Str("my-id")
    /\ isValid(result.value) = Return(Bool(TRUE))

\* C10: build() fails with the sender-required error iff neither from() nor
\* sender() was called; otherwise with the intent-required error iff the
\* accumulated task has no intent (none set, or an empty one); otherwise it
\* returns a document with the accumulated sender and intent and iap_version
\* "0.2".  The sender precondition comes first.
C10_BuildPreconditions ==
    op = "build" =>
        LET noIntent == ~NonEmptyString(OptGet(builder.task, "intent")) IN
        /\ result = Throw(SenderRequired) <=> ~senderSet
        /\ result = Throw(IntentRequired) <=> (senderSet /\ noIntent)
        /\ Returned(result) <=> (senderSet /\ ~noIntent)
        /\ Returned(result) =>
              /\ Get(result.value, "sender") = builder.sender
              /\ Get(Get(result.value, "task"), "intent")
                    = Get(builder.task, "intent")
              /\ Get(result.value, "iap_version") = Str("0.2")

\* build() returned a document after from() and intent() and one more setter.
C10_Witness ==
    /\ op = "build"
    /\ Returned(result)
    /\ calls = MaxCalls
    /\ Get(Get(result.value, "sender"), "agent_id") = Str("my-agent")
    /\ Get(Get(result.value, "task"), "intent") = Str("x")

\* ------------------------------------------------------------------- C11
\* The text handed to parse is syntactically valid JSON exactly when it is
\* the unmodified output of a serialization.
WellFormed == given # Undef

\* The "path: message" pairs of a validation result, comma-separated, in the
\* order of the result.
RECURSIVE Pairs(_)
Pairs(errs) ==
    IF errs = <<>> THEN ""
    ELSE Head(errs).path \o ": " \o Head(errs).message
         \o (IF Len(errs) > 1 THEN ", " ELSE "") \o Pairs(Tail(errs))

\* C11: parse(text) has exactly three outcomes. It fails with the JSON-only
\* error iff text is not syntactically valid JSON; otherwise it fails with
\* the aggregate "Invalid IAP task" error, listing every "path: message" pair
\* in validator order, iff validate of the decoded value is non-empty;
\* otherwise it returns the decoded value. No decoded value makes it fail in
\* any other way.
C11_ThreeOutcomes ==
    op = "parse" =>
        IF ~WellFormed THEN result = Throw(JsonOnly)
        ELSE LET decoded == JSONparse(text)
                 errors == validate(decoded.v) IN
             /\ decoded.ok
             /\ Returned(errors)
             /\ IF errors.value # <<>>
                THEN result =
                        Throw("Invalid IAP task: " \o Pairs(errors.value))
                ELSE result = Return(decoded.v)

\* The three outcomes hold of every parse whose validation returns.
C11_ThreeOutcomesWhenValidateReturns ==
    (op = "parse" /\ WellFormed /\ Returned(validate(JSONparse(text).v)))
        => C11_ThreeOutcomes

\* ------------------------------------------------------------------- C12
\* v with every property whose value is undefined left out, at every depth:
\* two documents are field-wise equal, undefined fields counting as absent,
\* when their Stripped forms are equal.
RECURSIVE Stripped(_)
Stripped(v) ==
    IF v.k = "object"
    THEN LET kept == {name \in DOMAIN v.f : v.f[name] # Undef} IN
         Obj([name \in kept |-> Stripped(v.f[name])])
    ELSE IF v.k = "array"
    THEN Arr([i \in DOMAIN v.e |-> Stripped(v.e[i])])
    ELSE v

Conformant(d) == validate(d) = Return(<<>>)

RECURSIVE AllFinite(_)
AllFinite(v) ==
    IF v.k = "object" THEN \A name \in DOMAIN v.f : AllFinite(v.f[name])
    ELSE IF v.k = "array" THEN \A i \in DOMAIN v.e : AllFinite(v.e[i])
    ELSE v.k = "number" => IsFinite(v)

\* C12: round-trip law. For every conformant document d, those of createTask
\* and build with their undefined optional fields included, and for both
\* values of pretty, parse(toJSON(d, pretty)) succeeds and is field-wise equal
\* to d, undefined fields counting as absent.
C12_RoundTrip ==
    (op = "parse" /\ WellFormed /\ Conformant(given)) =>
        /\ Returned(result)
        /\ Stripped(result.value) = Stripped(given)

\* The law holds of every conformant document whose numbers are all finite.
C12_RoundTripOfFiniteNumbers ==
    (op = "parse" /\ WellFormed /\ Conformant(given) /\ AllFinite(given)) =>
        /\ Returned(result)
        /\ result.value = Stripped(given)

\* ------------------------------------------------------------------- C13
OptionalFields == {"delivery", "output", "on_failure"}

SubPaths(name) ==
    CASE name = "delivery" ->
            {"delivery.method", "delivery.webhook", "delivery.email"}
      [] name = "output" -> {"output.format"}
      [] name = "on_failure" -> {"on_failure.action"}

\* present, but not an object: a number, a string, a boolean or null
PresentNonObject(v) == v.k \in {"number", "string", "boolean", "null"}

CountAt(errs, path) == Len(SelectSeq(errs, LAMBDA e : e.path = path))

\* C13: an optional field (delivery, output, on_failure) explicitly set to
\* undefined gives the same validate result as the field being absent; a
\* field that is present but a number, string, boolean or null yields exactly
\* one error at the field's own path and none at its sub-paths.
C13_OptionalPresence ==
    (Validated /\ IsObject(cand)) =>
        \A name \in OptionalFields :
            /\ validate(With(cand, name, Undef)) = validate(Without(cand, name))
            /\ PresentNonObject(Get(cand, name)) =>
                  /\ Returned(result)
                  /\ CountAt(result.value, name) = 1
                  /\ \A sub \in SubPaths(name) : CountAt(result.value, sub) = 0

\* The same with null left out of the non-objects.
C13_OptionalPresenceNotNull ==
    (Validated /\ IsObject(cand)) =>
        \A name \in OptionalFields :
            /\ validate(With(cand, name, Undef)) = validate(Without(cand, name))
            /\ (PresentNonObject(Get(cand, name)) /\ Get(cand, name) # Null
                /\ \A other \in OptionalFields : Get(cand, other) # Null) =>
                  /\ Returned(result)
                  /\ CountAt(result.value, name) = 1
                  /\ \A sub \in SubPaths(name) : CountAt(result.value, sub) = 0

\* ------------------------------------------------------------------- C14
\* The properties a sub-object of the builder has accumulated.
Accumulated(sub) == IF IsObject(sub) THEN DOMAIN sub.f ELSE {}

\* This step set property name of the builder's sub-object to one of values
\* and changed nothing else of the builder.
MergedInto(sub, name, values) ==
    /\ IsObject(builder'[sub])
    /\ DOMAIN builder'[sub].f = Accumulated(builder[sub]) \cup {name}
    /\ builder'[sub].f[name] \in values
    /\ \A other \in Accumulated(builder[sub]) \ {name} :
          builder'[sub].f[other] = builder[sub].f[other]
    /\ \A field \in DOMAIN builder \ {sub} : builder'[field] = builder[field]

\* C14: the field-level setters are merge-on-write. Each of intent, details,
\* context, contextRef changes only that one field of the accumulated task,
\* each of timeLimit, tokenBudget, toolsAllowed, toolsDenied, scope,
\* requiresCapabilities only that one field of the accumulated constraints;
\* every other field of the same sub-object and every other sub-object of the
\* builder is left unchanged, in any call order.
C14_MergeOnWrite ==
    [][ /\ Intent => MergedInto("task", "intent", {Str(""), Str("x")})
        /\ Details => MergedInto("task", "details", {Str("d")})
        /\ Context => MergedInto("task", "context", {Str("c")})
        /\ ContextRef => MergedInto("task", "context_ref", {Str("r")})
        /\ TimeLimit => MergedInto("constraints", "time_limit", {Str("30m")})
        /\ TokenBudget =>
              MergedInto("constraints", "token_budget", {Num(5000), Infinity})
        /\ ToolsAllowed =>
              MergedInto("constraints", "tools_allowed",
                         {Arr(<<Str("web_search")>>)})
        /\ ToolsDenied =>
              MergedInto("constraints", "tools_denied",
                         {Arr(<<Str("send_email")>>)})
        /\ Scope => MergedInto("constraints", "scope", {Str("s")})
        /\ RequiresCapabilities =>
              MergedInto("constraints", "requires_capabilities",
                         {Arr(<<Str("code_exec")>>)})
      ]_vars

\* intent() was called after details() and context(), and a constraint setter
\* after another: the accumulated task and constraints hold all of them, next
\* to a sender.
C14_Witness ==
    /\ op = "set"
    /\ IsObject(builder.task)
    /\ {"intent", "details"} \subseteq DOMAIN builder.task.f
    /\ IsObject(builder.constraints)
    /\ {"time_limit", "scope"} \subseteq DOMAIN builder.constraints.f

\* ------------------------------------------------------------------- C15
Formats == {Str("json"), Str("markdown")}
Locations == {Str("file:///out.md")}

\* What build() returns for builder b has an output with format f and
\* deliver_to l.
BuildsOutput(b, f, l) ==
    \A id \in GeneratedIds :
        LET r == build(b, id) IN
        Returned(r) =>
            /\ IsObject(Get(r.value, "output"))
            /\ Get(Get(r.value, "output"), "format") = f
            /\ Get(Get(r.value, "output"), "deliver_to") = l

\* C15: the output sub-object is merge-on-write between outputFormat and
\* deliverTo. For every format f and location l, deliverTo(l) followed by
\* outputFormat(f), and outputFormat(f) followed by deliverTo(l), both build
\* a document whose output has format f and deliver_to l.
C15_OutputMergesInBothOrders ==
    [][ \A f \in Formats : \A l \in Locations :
          /\ (/\ OptGet(builder.output, "deliver_to") = l
              /\ Set(outputFormat(builder, f, Undef), FALSE))
                => BuildsOutput(builder', f, l)
          /\ (/\ OptGet(builder.output, "format") = f
              /\ Set(deliverTo(builder, l), FALSE))
                => BuildsOutput(builder', f, l)
      ]_vars

\* The order outputFormat(f), deliverTo(l) alone.
C15_FormatThenLocation ==
    [][ \A f \in Formats : \A l \in Locations :
          (/\ OptGet(builder.output, "format") = f
           /\ Set(deliverTo(builder, l), FALSE))
             => BuildsOutput(builder', f, l)
      ]_vars

\* ------------------------------------------------------------------- C16
\* The criteria a builder holds, none counting as the empty list.
Criteria(b) ==
    IF b.successCriteria.k = "array" THEN b.successCriteria.e ELSE <<>>

\* C16: success criteria accumulate in call order. addCriterion(c) appends c
\* to the list set or accumulated so far, [c] when there is none;
\* successCriteria(M) replaces the whole list by M; addCriterion never
\* modifies the array the caller passed to successCriteria; and the built
\* document's success_criteria is the accumulated list.
C16_CriteriaAccumulate ==
    /\ [][ /\ AddCriterion =>
                /\ builder'.successCriteria =
                      Arr(Criteria(builder) \o <<Str("c2")>>)
                /\ callerList'.list = callerList.list
           /\ SuccessCriteria =>
                /\ builder'.successCriteria \in {EmptyArr, Arr(<<Str("c1")>>)}
                /\ callerList'.list = builder'.successCriteria
         ]_vars
    /\ [](op = "build" /\ Returned(result) =>
             Get(result.value, "success_criteria") = builder.successCriteria)

\* successCriteria(["c1"]) was followed by two addCriterion("c2"): the builder
\* holds c1, c2, c2 and the caller's array still holds c1 alone.
C16_Witness ==
    /\ op = "set"
    /\ builder.successCriteria = Arr(<<Str("c1"), Str("c2"), Str("c2")>>)
    /\ callerList = [list |-> Arr(<<Str("c1")>>), same |-> FALSE]

\* ------------------------------------------------------------------- C17
\* C17: every document build() returns is conformant when the builder was
\* driven, in any order and any number of times, only through the typed
\* convenience setters (from, intent, details, context, contextRef, taskId,
\* syncDelivery, asyncDelivery, emailDelivery, the constraint setters,
\* successCriteria, addCriterion, outputFormat, deliverTo, onFailure) with
\* non-empty strings and valid enum literals.
C17_TypedBuildsConform ==
    (op = "build" /\ Returned(result)) => Conformant(result.value)

\* A built document of the typed setters fails validation in one way only:
\* its output, made by deliverTo alone, has no format.
C17_TypedBuildsConformUpToFormat ==
    (op = "build" /\ Returned(result)) =>
        \/ Conformant(result.value)
        \/ /\ OptGet(builder.output, "format") = Undef
           /\ OptGet(builder.output, "deliver_to") # Undef
           /\ Returned(validate(result.value))
           /\ Paths(validate(result.value).value) = <<"output.format">>

====
